---- MODULE Spec2Model ----
(***************************************************************************)
(* State-machine model of SentinelAgent (src/sentinel.py): the voice       *)
(* command loop (run), the guard loop (start_guard_mode), the intruder     *)
(* escalation ladder (handle_intruder_escalation) and the reset            *)
(* (reset_intruder_state).                                                  *)
(*                                                                         *)
(* Time is the wall clock of time.time(), in whole seconds.  One guard-loop *)
(* iteration reads the clock once (current_time); a spoken warning blocks   *)
(* the loop for the duration of the speech, so the clock after the          *)
(* iteration is current_time plus that duration.                            *)
(***************************************************************************)
EXTENDS Integers, Sequences, FiniteSets, TLC

\* ---------------------------------------------------------------- bounds
MaxTime == 42      \* the clock is not advanced beyond this value
MaxDt == 2         \* largest clock advance between two loop iterations
MaxSpeak == 1      \* longest duration of one blocking speak() call
MaxFaces == 2      \* most faces in one frame

\* ------------------------------------------------------------- constants
None == -1                       \* Python None for the optional timestamps
GRACE_PERIOD_SECONDS == 3
COOLDOWN_LEVEL_1 == 10
COOLDOWN_LEVEL_2 == 10
COOLDOWN_LEVEL_3 == 5

MSG_HELLO == "Hello? Can I help you? My owner isn't here right now."
MSG_MONITORED == "You don't seem to be on the trusted list. This area is being monitored."
MSG_LEAVE == "You are not authorized to be here. Your presence is being recorded. Please leave immediately."
MSG_WARNING == "Warning! Intrusion detected. If you do not vacate the premises, I will have to take further action."
MSG_ACTIVATED == "Guard mode activated. I am now monitoring the room."
MSG_NO_WEBCAM == "Error: Could not access the webcam."
MSG_DEACTIVATED == "Guard mode deactivated."
MSG_READY == "I am ready for the next command."
MSG_GOODBYE == "Shutting down. Goodbye!"

VARIABLES
    pc,            \* "listen": run() is about to listen; "guard": inside the
                   \* while loop of start_guard_mode; "done": run() returned
    now,           \* the wall clock as of the last step that read it
    self,          \* the four intruder fields of the SentinelAgent object
    event,         \* what the last step was: "init", "listen", "tick",
                   \* "readfail", "quit"
    frame,         \* the faces of the last processed frame
    current_time,  \* the clock value the last guard iteration worked with
    decision,      \* the branch the last guard iteration took
    spoken,        \* the texts passed to speak() during the last step
    snapshot_path, \* the snapshot written during the last step, or None
    command,       \* what listen_for_command returned in the last step
                   \* (empty after a step that did not listen)
    listen_result, \* how the listening of the last step ended: "ok" or the
                   \* exception raised ("-" after a step that did not listen)
    camera_open,   \* the VideoCapture of start_guard_mode is open
    runStart,      \* history: clock of the first tick of the current run of
                   \* consecutive unknown-only ticks, None outside such a run
    warned,        \* history: ladder levels whose warning was spoken since
                   \* the last trusted-face reset
    snapCount,     \* history: snapshots written since the last trusted reset
    resetMidLadder \* history: some trusted-face reset found the ladder at
                   \* level 2 or above

vars == <<pc, now, self, event, frame, current_time, decision, spoken,
          snapshot_path, command, listen_result, camera_open, runStart,
          warned, snapCount, resetMidLadder>>

history == <<runStart, warned, snapCount, resetMidLadder>>

\* ------------------------------------------------------ the agent's fields
\* __init__: the intruder detection state variables
InitFields ==
    [ intruder_detected |-> FALSE,
      last_warning_time |-> None,
      escalation_level |-> 0,
      unrecognized_face_start_time |-> None ]

\* variant: the reset forgets the time of the last warning
reset_intruder_state_keeps_warning_time(s) ==
    [ s EXCEPT !.intruder_detected = FALSE,
               !.unrecognized_face_start_time = None,
               !.escalation_level = 0 ]

\* variant: the reset forgets the ladder level
reset_intruder_state_keeps_level(s) ==
    [ s EXCEPT !.intruder_detected = FALSE,
               !.unrecognized_face_start_time = None,
               !.last_warning_time = None ]

\* reset_intruder_state: resets all intruder-related fields
reset_intruder_state(s) ==
    [ s EXCEPT !.intruder_detected = FALSE,
               !.unrecognized_face_start_time = None,
               !.escalation_level = 0,
               !.last_warning_time = None ]

\* the result of one call of handle_intruder_escalation
Escalated(s, texts, snap) == [ fields |-> s, spoken |-> texts, snapshot |-> snap ]

\* variant: a firing transition that forgets to store the time
Fire_keeps_time(s, level, t) ==
    [ s EXCEPT !.escalation_level = level ]

\* variant: a firing transition that forgets to store the new level
Fire_keeps_level(s, level, t) ==
    [ s EXCEPT !.last_warning_time = t ]

\* a firing transition of the ladder: the level and last_warning_time
Fire(s, level, t) ==
    [ s EXCEPT !.escalation_level = level, !.last_warning_time = t ]

\* variant: the cool-down tests with >= in place of >
cooldown_elapsed_ge(s, t) ==
    LET time_since_last_warning == t - s.last_warning_time
    IN  CASE s.escalation_level = 1 -> time_since_last_warning >= COOLDOWN_LEVEL_1
          [] s.escalation_level = 2 -> time_since_last_warning >= COOLDOWN_LEVEL_2
          [] s.escalation_level = 3 -> time_since_last_warning >= COOLDOWN_LEVEL_3
          [] OTHER -> FALSE

\* variant: the cool-down subtraction with its operands swapped
cooldown_elapsed_swapped(s, t) ==
    LET time_since_last_warning == s.last_warning_time - t
    IN  CASE s.escalation_level = 1 -> time_since_last_warning > COOLDOWN_LEVEL_1
          [] s.escalation_level = 2 -> time_since_last_warning > COOLDOWN_LEVEL_2
          [] s.escalation_level = 3 -> time_since_last_warning > COOLDOWN_LEVEL_3
          [] OTHER -> FALSE

\* the cool-down tests of the ladder: time_since_last_warning > 10 / 10 / 5
cooldown_elapsed(s, t) ==
    LET time_since_last_warning == t - s.last_warning_time
    IN  CASE s.escalation_level = 1 -> time_since_last_warning > COOLDOWN_LEVEL_1
          [] s.escalation_level = 2 -> time_since_last_warning > COOLDOWN_LEVEL_2
          [] s.escalation_level = 3 -> time_since_last_warning > COOLDOWN_LEVEL_3
          [] OTHER -> FALSE

\* snapshot_path = f"intruder_{int(current_time)}.jpg": the path is
\* represented by the whole second it embeds
snapshot_name(t) == t

\* variant: the last warning saves a snapshot too
handle_intruder_escalation_snapshot_again(s, t) ==
    IF s.escalation_level = 0
    THEN Escalated(Fire(s, 1, t), <<MSG_HELLO>>, None)
    ELSE IF s.escalation_level = 1 /\ cooldown_elapsed(s, t)
    THEN Escalated(Fire(s, 2, t), <<MSG_MONITORED>>, None)
    ELSE IF s.escalation_level = 2 /\ cooldown_elapsed(s, t)
    THEN Escalated(Fire(s, 3, t), <<MSG_LEAVE>>, snapshot_name(t))
    ELSE IF s.escalation_level = 3 /\ cooldown_elapsed(s, t)
    THEN Escalated(Fire(s, 4, t), <<MSG_WARNING>>, snapshot_name(t))
    ELSE Escalated(s, <<>>, None)

\* variant: the last warning is repeated whenever its cool-down has passed
handle_intruder_escalation_repeats_last(s, t) ==
    IF s.escalation_level = 0
    THEN Escalated(Fire(s, 1, t), <<MSG_HELLO>>, None)
    ELSE IF s.escalation_level = 1 /\ cooldown_elapsed(s, t)
    THEN Escalated(Fire(s, 2, t), <<MSG_MONITORED>>, None)
    ELSE IF s.escalation_level = 2 /\ cooldown_elapsed(s, t)
    THEN Escalated(Fire(s, 3, t), <<MSG_LEAVE>>, snapshot_name(t))
    ELSE IF s.escalation_level = 3 /\ cooldown_elapsed(s, t)
    THEN Escalated(Fire(s, 4, t), <<MSG_WARNING>>, None)
    ELSE IF s.escalation_level = 4 /\ t - s.last_warning_time > COOLDOWN_LEVEL_3
    THEN Escalated(Fire(s, 4, t), <<MSG_WARNING>>, None)
    ELSE Escalated(s, <<>>, None)

\* handle_intruder_escalation(frame) with current_time = t.  A level >= 1
\* always has last_warning_time set (both are written together), so the
\* subtraction in line 74 never meets None.
handle_intruder_escalation(s, t) ==
    IF s.escalation_level = 0
    THEN Escalated(Fire(s, 1, t), <<MSG_HELLO>>, None)
    ELSE IF s.escalation_level = 1 /\ cooldown_elapsed(s, t)
    THEN Escalated(Fire(s, 2, t), <<MSG_MONITORED>>, None)
    ELSE IF s.escalation_level = 2 /\ cooldown_elapsed(s, t)
    THEN Escalated(Fire(s, 3, t), <<MSG_LEAVE>>, snapshot_name(t))
    ELSE IF s.escalation_level = 3 /\ cooldown_elapsed(s, t)
    THEN Escalated(Fire(s, 4, t), <<MSG_WARNING>>, None)
    ELSE Escalated(s, <<>>, None)

\* ------------------------------------------------------- face matching
\* the trust registry loaded at construction: the entries of
\* known_face_encodings, called by their known_face_names
Known == { "owner" }

\* A face of a frame is represented by the set of registry entries that lie
\* within the tolerance of its encoding.  A frame is a sequence of faces.
Frames == UNION { [1..n -> SUBSET Known] : n \in 0..MaxFaces }

\* face_recognition.compare_faces(known_face_encodings, face_encoding)
compare_faces(face) == [ k \in Known |-> k \in face ]

\* True in matches
TrueIn(matches) == \E k \in DOMAIN matches : matches[k]

\* variant: only the first face of the frame is compared with the registry
is_trusted_first_face_only(faces) ==
    Len(faces) > 0 /\ TrueIn(compare_faces(faces[1]))

\* the for loop over face_encodings: is_trusted_person_present
is_trusted_person_present(faces) ==
    \E i \in 1..Len(faces) : TrueIn(compare_faces(faces[i]))

\* variant: the grace period test with >= in place of >
grace_elapsed_ge(s, t) ==
    t - s.unrecognized_face_start_time >= GRACE_PERIOD_SECONDS

\* variant: the grace period test compares with zero
grace_elapsed_any(s, t) ==
    t - s.unrecognized_face_start_time > 0

\* time.time() - self.unrecognized_face_start_time > self.GRACE_PERIOD_SECONDS
grace_elapsed(s, t) ==
    t - s.unrecognized_face_start_time > GRACE_PERIOD_SECONDS

\* the result of processing one frame
Processed(s, d, texts, snap) ==
    [ fields |-> s, decision |-> d, spoken |-> texts, snapshot |-> snap ]

\* variant: the timer is restarted by every tick that does not confirm
unknown_face_branch_restarts_timer(s, t) ==
    IF s.unrecognized_face_start_time # None /\ grace_elapsed(s, t)
    THEN LET r == handle_intruder_escalation(
                      [s EXCEPT !.intruder_detected = TRUE], t)
         IN  Processed(r.fields, "IntruderConfirmed", r.spoken, r.snapshot)
    ELSE Processed([s EXCEPT !.unrecognized_face_start_time = t],
                   "UnknownPending", <<>>, None)

\* variant: a confirmed intrusion runs the ladder on every unknown face,
\* without waiting for the grace period again
unknown_face_branch_skips_grace(s, t) ==
    LET s1 == IF s.unrecognized_face_start_time = None
              THEN [s EXCEPT !.unrecognized_face_start_time = t]
              ELSE s
    IN  IF s.intruder_detected
           \/ (s.unrecognized_face_start_time # None /\ grace_elapsed(s, t))
        THEN LET r == handle_intruder_escalation(
                          [s1 EXCEPT !.intruder_detected = TRUE], t)
             IN  Processed(r.fields, "IntruderConfirmed", r.spoken, r.snapshot)
        ELSE Processed(s1, "UnknownPending", <<>>, None)

\* the branch of the intrusion detection logic taken when an unknown face is
\* in the frame and no trusted one is
unknown_face_branch(s, t) ==
    IF s.unrecognized_face_start_time = None
    THEN Processed([s EXCEPT !.unrecognized_face_start_time = t],
                   "UnknownPending", <<>>, None)
    ELSE IF grace_elapsed(s, t)
    THEN LET r == handle_intruder_escalation(
                      [s EXCEPT !.intruder_detected = TRUE], t)
         IN  Processed(r.fields, "IntruderConfirmed", r.spoken, r.snapshot)
    ELSE Processed(s, "UnknownPending", <<>>, None)

\* variant: an empty frame leaves the timer running
clear_branch_keeps_timer(s, trusted) ==
    IF trusted
    THEN Processed(reset_intruder_state(s), "TrustedPresent", <<>>, None)
    ELSE Processed(s, "NoFaces", <<>>, None)

\* variant: an empty frame resets the whole intruder state as well
clear_branch_resets_always(s, trusted) ==
    Processed(reset_intruder_state(s),
              IF trusted THEN "TrustedPresent" ELSE "NoFaces", <<>>, None)

\* the else branch: no faces, or a trusted person is present
clear_branch(s, trusted) ==
    LET s1 == [s EXCEPT !.unrecognized_face_start_time = None]
    IN  IF trusted
        THEN Processed(reset_intruder_state(s1), "TrustedPresent", <<>>, None)
        ELSE Processed(s1, "NoFaces", <<>>, None)

\* the body of the while loop of start_guard_mode between the frame read and
\* the display: recognition loop, then the intrusion detection logic
process_frame(s, faces, t) ==
    LET trusted == is_trusted_person_present(faces)
        s1 == IF trusted THEN reset_intruder_state(s) ELSE s
    IN  IF ~trusted /\ Len(faces) > 0
        THEN unknown_face_branch(s1, t)
        ELSE clear_branch(s1, trusted)

\* ------------------------------------------------------ the command loop
\* A phrase is the sequence of its characters.
UpperCase == <<"A", "B", "C", "D", "E", "F", "G", "H", "I", "J", "K", "L", "M">>
             \o <<"N", "O", "P", "Q", "R", "S", "T", "U", "V", "W", "X", "Y", "Z">>
LowerCase == <<"a", "b", "c", "d", "e", "f", "g", "h", "i", "j", "k", "l", "m">>
             \o <<"n", "o", "p", "q", "r", "s", "t", "u", "v", "w", "x", "y", "z">>

\* str.lower() on one character and on a phrase
lower_char(c) ==
    IF \E i \in 1..Len(UpperCase) : UpperCase[i] = c
    THEN LowerCase[CHOOSE i \in 1..Len(UpperCase) : UpperCase[i] = c]
    ELSE c
lower(phrase) == [ i \in 1..Len(phrase) |-> lower_char(phrase[i]) ]

\* sub in phrase (Python substring containment)
Contains(sub, phrase) ==
    \E i \in 0..(Len(phrase) - Len(sub)) :
        \A j \in 1..Len(sub) : phrase[i + j] = sub[j]

GUARD_MY_ROOM == <<"g", "u", "a", "r", "d", " ", "m", "y", " ", "r", "o", "o", "m">>
EXIT == <<"e", "x", "i", "t">>
STOP == <<"s", "t", "o", "p">>

\* what the speech service can transcribe
Heard ==
    { <<"G", "u", "a", "r", "d", " ", "m", "y", " ", "r", "o", "o", "m">>,
      <<"e", "x", "i", "t">>,
      <<"S", "t", "o", "p", " ", "i", "t">>,
      <<"u", "n", "s", "t", "o", "p", "p", "a", "b", "l", "e">>,
      <<"h", "e", "l", "l", "o">>,
      <<"e", "x", "i", "t", " ", "o", "r", " ", "g", "u", "a", "r", "d", " ", "m", "y", " ", "r", "o", "o", "m">>,
      <<"g", "u", "a", "r", "d", " ", "r", "o", "o", "m">> }

\* the phrases heard while the guard loop is under study
HeardGuard == { <<"G", "u", "a", "r", "d", " ", "m", "y", " ", "r", "o", "o", "m">>, <<"e", "x", "i", "t">> }

\* how recognizer.listen / recognize_google can end
ListenFailures == { "WaitTimeoutError", "UnknownValueError", "RequestError" }
ListenOutcomes == { "ok" } \cup ListenFailures

\* listen_for_command: the lower-cased transcription, "" on every failure
listen_for_command(outcome, heard) ==
    IF outcome = "ok" THEN lower(heard) ELSE <<>>

\* variant: the stop phrases are tested before the guard phrase
interpret_stop_first(cmd) ==
    IF Contains(EXIT, cmd) \/ Contains(STOP, cmd) THEN "StopAgent"
    ELSE IF Contains(GUARD_MY_ROOM, cmd) THEN "StartGuard"
    ELSE "None"

\* variant: the operands of "in" are swapped
interpret_swapped_operands(cmd) ==
    IF Contains(cmd, GUARD_MY_ROOM) THEN "StartGuard"
    ELSE IF Contains(cmd, EXIT) \/ Contains(cmd, STOP) THEN "StopAgent"
    ELSE "None"

\* the if / elif of run()
interpret(cmd) ==
    IF Contains(GUARD_MY_ROOM, cmd) THEN "StartGuard"
    ELSE IF Contains(EXIT, cmd) \/ Contains(STOP, cmd) THEN "StopAgent"
    ELSE "None"

MSG_GREETING == "Hello [Your Name]. Sentinel agent is ready. Say 'guard my room' to activate or 'exit' to shut down."

\* --------------------------------------------------------------- history
\* a frame with a face that some registry entry matches / with faces, none
\* of which is matched / without faces
TrustedFrame(f) == \E i \in 1..Len(f) : f[i] # {}
UnknownOnlyFrame(f) == Len(f) > 0 /\ ~TrustedFrame(f)
EmptyFrame(f) == Len(f) = 0

\* the ladder warnings among the texts of a step
Warnings == { MSG_HELLO, MSG_MONITORED, MSG_LEAVE, MSG_WARNING }
IsWarning(text) == text \in Warnings
WarningsIn(texts) == SelectSeq(texts, IsWarning)

\* ---------------------------------------------------------------- actions
\* the agent after __init__ and the greeting of run()
Init ==
    /\ pc = "listen"
    /\ now = 0
    /\ self = InitFields
    /\ event = "init"
    /\ frame = <<>>
    /\ current_time = None
    /\ decision = "None"
    /\ spoken = <<MSG_GREETING>>
    /\ snapshot_path = None
    /\ command = <<>>
    /\ listen_result = "-"
    /\ camera_open = FALSE
    /\ runStart = None
    /\ warned = {}
    /\ snapCount = 0
    /\ resetMidLadder = FALSE

\* release the camera, destroy the windows, say so, and return to run()
Teardown == <<MSG_DEACTIVATED, MSG_READY>>

\* a step outside the frame processing leaves no frame, decision or snapshot
NoTickOut ==
    /\ frame' = <<>>
    /\ current_time' = None
    /\ decision' = "None"
    /\ snapshot_path' = None

\* One iteration of run(): listen, then start guard mode, shut down, or
\* listen again.  opened is video_capture.isOpened().  Listening and
\* speaking block, but nothing here reads the clock: the time they take is
\* part of the advance that the next frame's clock reading sees.
Listen(outcome, heard, opened) ==
    /\ pc = "listen"
    /\ command' = listen_for_command(outcome, heard)
    /\ listen_result' = outcome
    /\ event' = "listen"
    /\ camera_open' = (interpret(command') = "StartGuard" /\ opened)
    /\ CASE interpret(command') = "StartGuard" ->
              IF opened
              THEN pc' = "guard" /\ spoken' = <<MSG_ACTIVATED>>
              ELSE pc' = "listen"
                   /\ spoken' = <<MSG_ACTIVATED, MSG_NO_WEBCAM, MSG_READY>>
         [] interpret(command') = "StopAgent" ->
              pc' = "done" /\ spoken' = <<MSG_GOODBYE>>
         [] OTHER -> pc' = "listen" /\ spoken' = <<>>
    /\ NoTickOut
    /\ UNCHANGED <<now, self, history>>

\* One iteration of the while loop of start_guard_mode, from the successful
\* frame read to the display of the frame: the frame holds faces, the clock
\* reads now + dt, and the speech of the iteration lasts dur.
Tick(faces, dt, dur) ==
    LET t == now + dt
        r == process_frame(self, faces, t)
    IN  /\ pc = "guard"
        /\ t + dur <= MaxTime
        /\ (r.spoken = <<>>) => (dur = 0)
        /\ now' = t + dur
        /\ self' = r.fields
        /\ event' = "tick"
        /\ frame' = faces
        /\ current_time' = t
        /\ decision' = r.decision
        /\ spoken' = r.spoken
        /\ snapshot_path' = r.snapshot
        /\ pc' = "guard"
        /\ command' = <<>>
        /\ listen_result' = "-"
        /\ camera_open' = camera_open
        /\ runStart' = IF UnknownOnlyFrame(faces)
                       THEN (IF runStart = None THEN t ELSE runStart)
                       ELSE None
        /\ warned' = IF TrustedFrame(faces) THEN {}
                     ELSE IF WarningsIn(r.spoken) # <<>>
                     THEN warned \cup {self.escalation_level}
                     ELSE warned
        /\ snapCount' = IF TrustedFrame(faces) THEN 0
                        ELSE IF r.snapshot # None THEN snapCount + 1
                        ELSE snapCount
        /\ resetMidLadder' = (resetMidLadder
                              \/ (TrustedFrame(faces) /\ self.escalation_level >= 2))

\* the guard loop ends: camera released, windows destroyed, and run() says
\* it is ready again.  Nothing of the agent's fields is touched.
LeaveGuard(why) ==
    /\ pc' = "listen"
    /\ event' = why
    /\ spoken' = Teardown
    /\ command' = <<>>
    /\ listen_result' = "-"
    /\ camera_open' = FALSE
    /\ NoTickOut
    /\ UNCHANGED <<now, self, history>>

\* waitKey at the end of an iteration returns 'q'
Quit ==
    /\ pc = "guard"
    /\ event = "tick"
    /\ LeaveGuard("quit")

\* variant: a failed frame read ends the agent instead of the guard cycle
ReadFail_terminates ==
    /\ pc = "guard"
    /\ pc' = "done"
    /\ event' = "readfail"
    /\ spoken' = <<MSG_DEACTIVATED>>
    /\ command' = <<>>
    /\ listen_result' = "-"
    /\ camera_open' = FALSE
    /\ NoTickOut
    /\ UNCHANGED <<now, self, history>>

\* the frame read at the top of an iteration fails (ret is False)
ReadFail ==
    /\ pc = "guard"
    /\ LeaveGuard("readfail")

Next ==
    \/ \E heard \in HeardGuard, opened \in BOOLEAN :
           Listen("ok", heard, opened)
    \/ \E outcome \in ListenFailures :
           Listen(outcome, <<>>, TRUE)
    \/ \E faces \in Frames, dt \in 0..MaxDt, dur \in 0..MaxSpeak :
           Tick(faces, dt, dur)
    \/ Quit
    \/ ReadFail

Spec == Init /\ [][Next]_vars

\* The command loop under study: every phrase of Heard, every listening
\* failure, and a guard loop whose frames come MaxDt apart.
NextCommand ==
    \/ \E heard \in Heard, opened \in BOOLEAN :
           Listen("ok", heard, opened)
    \/ \E outcome \in ListenFailures, heard \in Heard :
           Listen(outcome, heard, TRUE)
    \/ \E faces \in Frames, dur \in 0..MaxSpeak :
           Tick(faces, MaxDt, dur)
    \/ Quit
    \/ ReadFail

SpecCommand == Init /\ [][NextCommand]_vars

\* The guard loop facing an unknown face that stays.  LadderSpan is the
\* longest time a ladder takes from a tick with no timer set to level 4
\* when the clock advances one second per tick: the tick that sets the
\* timer, then the first clock values beyond the grace period and beyond
\* the three cool-downs.
LadderSpan ==
    1 + (GRACE_PERIOD_SECONDS + 1) + (COOLDOWN_LEVEL_1 + 1)
      + (COOLDOWN_LEVEL_2 + 1) + (COOLDOWN_LEVEL_3 + 1)

\* the clock value from which only unknown faces are seen: late enough for
\* a history before it, early enough for a whole ladder before MaxTime
PersistFrom == MaxTime - LadderSpan - (MaxDt + MaxSpeak - 1)

\* a loop iteration that sees unknown faces only, one second after the
\* last clock value
PersistTick ==
    \E faces \in Frames, dur \in 0..MaxSpeak :
        UnknownOnlyFrame(faces) /\ Tick(faces, 1, dur)

\* anything may happen before PersistFrom; from then on the guard loop only
\* sees unknown faces, is not stopped, and the clock advances
NextPersist ==
    \/ now < PersistFrom /\ Next
    \/ now >= PersistFrom /\ PersistTick

\* the while loop of start_guard_mode keeps iterating
SpecPersist == Init /\ [][NextPersist]_vars /\ WF_vars(PersistTick)

\* ================================================================ claims
\* a face of the frame that no registry entry matches
HasUnknownFace(f) == \E i \in 1..Len(f) : f[i] = {}

\* C1: every tick whose frame holds a face matched to a trusted identity,
\* with or without unknown faces beside it and whatever the state before,
\* is classified TrustedPresent and ends with unrecognized_face_start_time
\* None, intruder_detected false, escalation_level 0 and last_warning_time
\* None, and speaks no warning and writes no snapshot.
C1_TrustedTickClears ==
    (event = "tick" /\ TrustedFrame(frame)) =>
        /\ decision = "TrustedPresent"
        /\ self.unrecognized_face_start_time = None
        /\ self.intruder_detected = FALSE
        /\ self.escalation_level = 0
        /\ self.last_warning_time = None
        /\ spoken = <<>>
        /\ snapshot_path = None

\* a trusted face beside an unknown one, seen after a ladder had reached
\* level 2: the tick has reset everything
C1_Witness ==
    /\ event = "tick"
    /\ TrustedFrame(frame)
    /\ HasUnknownFace(frame)
    /\ resetMidLadder
    /\ self = InitFields
    /\ decision = "TrustedPresent"

\* C2 as stated: on an unknown-only tick with the timer already set and
\* now - unknownSince >= 3, equality included, intruder_detected is set and
\* the tick reports IntruderConfirmed.
C2_ConfirmsAtGraceOrMore ==
    [][ ( /\ event' = "tick"
          /\ UnknownOnlyFrame(frame')
          /\ self.unrecognized_face_start_time # None
          /\ current_time' - self.unrecognized_face_start_time >= 3 )
        => ( self'.intruder_detected /\ decision' = "IntruderConfirmed" ) ]_vars

\* C2 amended: on an unknown-only tick with the timer already set, the tick
\* sets intruder_detected and reports IntruderConfirmed when
\* now - unknownSince > 3; when the difference is exactly 3 the tick reports
\* UnknownPending and leaves intruder_detected as it was.
C2_ConfirmsBeyondGrace ==
    [][ ( /\ event' = "tick"
          /\ UnknownOnlyFrame(frame')
          /\ self.unrecognized_face_start_time # None )
        => LET dwell == current_time' - self.unrecognized_face_start_time
           IN  /\ (dwell > 3) =>
                     (self'.intruder_detected /\ decision' = "IntruderConfirmed")
               /\ (dwell = 3) =>
                     /\ decision' = "UnknownPending"
                     /\ self'.intruder_detected = self.intruder_detected ]_vars

\* an unknown face confirmed as intruder on the first whole second beyond
\* the grace period
C2_Witness ==
    /\ event = "tick"
    /\ UnknownOnlyFrame(frame)
    /\ decision = "IntruderConfirmed"
    /\ self.intruder_detected
    /\ current_time - self.unrecognized_face_start_time = 4

\* C3: in a run of consecutive unknown-only ticks (a run starts with the
\* timer unset), a tick whose dwell time since the start of the run is below
\* 3 reports UnknownPending and does not set intruder_detected, the tick
\* that starts the run included, and every tick whose dwell time exceeds 3
\* reports IntruderConfirmed with intruder_detected set.
C3_GraceBoundary ==
    [][ ( event' = "tick" /\ UnknownOnlyFrame(frame') )
        => LET dwell == current_time' - runStart'
           IN  /\ (dwell < 3) =>
                     /\ decision' = "UnknownPending"
                     /\ self'.intruder_detected = self.intruder_detected
               /\ (dwell > 3) =>
                     /\ decision' = "IntruderConfirmed"
                     /\ self'.intruder_detected ]_vars

\* the run of the scenario t = 0, 1, 2, 4: started at 0, confirmed at 4 with
\* the first warning
C3_Witness ==
    /\ event = "tick"
    /\ runStart = 0
    /\ current_time = 4
    /\ decision = "IntruderConfirmed"
    /\ self.intruder_detected
    /\ warned = {0}

\* the timer is set and the grace period has passed
DwellReached ==
    /\ self.unrecognized_face_start_time # None
    /\ now - self.unrecognized_face_start_time >= 3

\* C4 as stated: at the end of every tick, intruder_detected implies that
\* the timer is set and now - unknownSince >= 3.
C4_IntruderImpliesDwell ==
    (event = "tick" /\ self.intruder_detected) => DwellReached

\* C4 amended: at the end of a tick, intruder_detected implies that the
\* timer is set and now - unknownSince >= 3, as long as no empty frame has
\* been seen since the intrusion was confirmed: the implication holds at the
\* end of every tick that is not an empty-frame tick and that started in a
\* state where intruder_detected was false or the implication held.
C4_DwellUntilEmptyFrame ==
    [][ ( event' = "tick" /\ self'.intruder_detected )
        => \/ DwellReached'
           \/ EmptyFrame(frame')
           \/ (self.intruder_detected /\ ~DwellReached) ]_vars

\* an intrusion whose ladder has moved on while the timer kept running
C4_Witness ==
    /\ event = "tick"
    /\ self.intruder_detected
    /\ self.escalation_level = 2
    /\ DwellReached
    /\ self.unrecognized_face_start_time = runStart

\* C5: a tick with an empty frame sets unrecognized_face_start_time to None,
\* leaves intruder_detected, escalation_level and last_warning_time as they
\* were, and speaks and writes nothing; intruder_detected goes from true to
\* false only on a tick with a trusted face.
C5_EmptyFrameKeepsIntrusion ==
    [][ /\ ( event' = "tick" /\ EmptyFrame(frame') ) =>
              /\ decision' = "NoFaces"
              /\ self' = [self EXCEPT !.unrecognized_face_start_time = None]
              /\ spoken' = <<>>
              /\ snapshot_path' = None
        /\ ( self.intruder_detected /\ ~self'.intruder_detected ) =>
              ( event' = "tick" /\ TrustedFrame(frame') ) ]_vars

\* an empty frame during an intrusion at level 2: timer cleared, ladder kept
C5_Witness ==
    /\ event = "tick"
    /\ EmptyFrame(frame)
    /\ self.intruder_detected
    /\ self.escalation_level = 2
    /\ self.last_warning_time # None
    /\ self.unrecognized_face_start_time = None

\* the warning that belongs to a ladder level
LevelMessage(level) ==
    CASE level = 0 -> MSG_HELLO
      [] level = 1 -> MSG_MONITORED
      [] level = 2 -> MSG_LEAVE
      [] OTHER -> MSG_WARNING

\* C6: every tick leaves escalation_level as it was and speaks no warning,
\* or raises it by exactly one and speaks exactly one warning, the one of
\* the level it leaves, which was not spoken before in the episode, or is a
\* trusted-face tick that takes the level back to 0; no other step changes
\* the level or speaks a warning.
C6_LadderInOrder ==
    [][ LET level == self.escalation_level
            level2 == self'.escalation_level
            w == WarningsIn(spoken')
        IN  /\ (event' = "tick") =>
                  \/ level2 = level /\ w = <<>>
                  \/ /\ level2 = level + 1
                     /\ spoken' = <<LevelMessage(level)>>
                     /\ w = spoken'
                     /\ level \notin warned
                     /\ ~TrustedFrame(frame')
                  \/ level2 = 0 /\ level > 0 /\ TrustedFrame(frame') /\ w = <<>>
            /\ (event' # "tick") => (level2 = level /\ w = <<>>) ]_vars

\* the last warning of a ladder that went through every level
C6_Witness ==
    /\ event = "tick"
    /\ self.escalation_level = 4
    /\ spoken = <<MSG_WARNING>>
    /\ warned = {0, 1, 2, 3}

\* C7: a tick writes a snapshot if and only if it moves escalation_level
\* from 2 to 3, no other step writes one, and the number of snapshots
\* written since the last trusted-face reset is 1 when the level is 3 or 4
\* and 0 below.
C7_SnapshotOncePerEpisode ==
    [][ /\ (event' = "tick") =>
              /\ (snapshot_path' # None) <=>
                     (self.escalation_level = 2 /\ self'.escalation_level = 3)
              /\ snapCount' = IF self'.escalation_level >= 3 THEN 1 ELSE 0
        /\ (event' # "tick") => (snapshot_path' = None) ]_vars

\* a snapshot written in an episode that an empty frame interrupted: the
\* run of unknown-only ticks that led to it started after the ladder had
\* begun (a ladder needs more than 20 s from level 0 to the snapshot)
C7_Witness ==
    /\ event = "tick"
    /\ snapshot_path # None
    /\ self.escalation_level = 3
    /\ snapCount = 1
    /\ runStart # None
    /\ current_time - runStart < 20

\* C8: a trusted-face tick leaves escalation_level 0, and every step that
\* turns intruder_detected from false to true is a tick that finds the level
\* at 0, speaks the greeting, moves to level 1, and comes more than 3 s
\* after the start of the current run of unknown-only ticks, whatever level
\* an earlier episode had reached.
C8_EpisodeRestartsAtZero ==
    [][ /\ (event' = "tick" /\ TrustedFrame(frame')) =>
               (self'.escalation_level = 0)
        /\ (~self.intruder_detected /\ self'.intruder_detected) =>
               /\ event' = "tick"
               /\ self.escalation_level = 0
               /\ self'.escalation_level = 1
               /\ spoken' = <<MSG_HELLO>>
               /\ runStart' # None
               /\ current_time' - runStart' > 3 ]_vars

\* the greeting of a new episode, after a trusted face had reset a ladder
\* that stood at level 2 or above
C8_Witness ==
    /\ resetMidLadder
    /\ event = "tick"
    /\ decision = "IntruderConfirmed"
    /\ spoken = <<MSG_HELLO>>
    /\ self.escalation_level = 1
    /\ self.last_warning_time = current_time

\* C9: on a tick that runs the ladder, level 0 fires unconditionally, levels
\* 1 and 2 fire if and only if now - last_warning_time > 10, level 3 if and
\* only if now - last_warning_time > 5; firing raises the level by one and
\* speaks, not firing leaves the level and speaks nothing; the firing at
\* level 1 writes no snapshot and the firing at level 2 writes one.
C9_CooldownThresholds ==
    [][ ( event' = "tick" /\ decision' = "IntruderConfirmed" ) =>
        LET level == self.escalation_level
            since == current_time' - self.last_warning_time
            fired == /\ self'.escalation_level = level + 1
                     /\ WarningsIn(spoken') # <<>>
            kept == /\ self'.escalation_level = level
                    /\ spoken' = <<>>
        IN  /\ (level = 0) => fired
            /\ (level \in {1, 2}) => IF since > 10 THEN fired ELSE kept
            /\ (level = 3) => IF since > 5 THEN fired ELSE kept
            /\ (level = 1) => (snapshot_path' = None)
            /\ (level = 2) => (fired <=> snapshot_path' # None) ]_vars

\* a ladder tick at level 1 exactly 10 s after the greeting: nothing fires
C9_Witness ==
    /\ event = "tick"
    /\ decision = "IntruderConfirmed"
    /\ self.escalation_level = 1
    /\ current_time - self.last_warning_time = 10
    /\ spoken = <<>>

\* C10 as stated: a guard cycle starts with intruder_detected false,
\* unrecognized_face_start_time None, escalation_level 0 and
\* last_warning_time None, whatever state the previous cycle ended in.
C10_GuardCycleStartsClean ==
    (pc = "guard" /\ event = "listen") => (self = InitFields)

\* a step that fires the ladder: it speaks one of the warnings
Fires == WarningsIn(spoken') # <<>>

\* C11 as stated: a firing transition sets last_warning_time to the time at
\* which the blocking speak call completed.
C11_WarningTimeIsSpeechEnd ==
    (event = "tick" /\ WarningsIn(spoken) # <<>>) =>
        (self.last_warning_time = now)

\* C11 amended: a firing transition sets last_warning_time to the clock
\* value read at the start of the escalation call, before the warning is
\* spoken, whatever the speech lasts; a tick that fires nothing leaves
\* last_warning_time as it was unless a trusted face resets it.
C11_WarningTimeIsTickTime ==
    [][ (event' = "tick") =>
            /\ Fires => (self'.last_warning_time = current_time')
            /\ (~Fires /\ ~TrustedFrame(frame')) =>
                   (self'.last_warning_time = self.last_warning_time) ]_vars

\* a warning whose speech took time: last_warning_time is the clock value
\* of the tick, earlier than the end of the speech
C11_Witness ==
    /\ event = "tick"
    /\ spoken = <<MSG_MONITORED>>
    /\ now > current_time
    /\ self.last_warning_time = current_time

\* C12: escalation_level is always one of 0..4, and from level 4 every step
\* other than a trusted-face tick keeps the level at 4, keeps
\* last_warning_time, speaks no warning and writes no snapshot.
C12_LevelFourIsTerminal ==
    [][ /\ self.escalation_level \in 0..4
        /\ self'.escalation_level \in 0..4
        /\ ( /\ self.escalation_level = 4
             /\ ~(event' = "tick" /\ TrustedFrame(frame')) ) =>
               /\ self'.escalation_level = 4
               /\ self'.last_warning_time = self.last_warning_time
               /\ WarningsIn(spoken') = <<>>
               /\ snapshot_path' = None ]_vars

\* a ladder tick at level 4 more than 5 s after the last warning: silent
C12_Witness ==
    /\ event = "tick"
    /\ decision = "IntruderConfirmed"
    /\ self.escalation_level = 4
    /\ current_time - self.last_warning_time > 5
    /\ spoken = <<>>
    /\ snapshot_path = None

C17_IntruderFieldsAgree ==
    /\ self.intruder_detected <=> (self.escalation_level >= 1)
    /\ self.intruder_detected <=> (self.last_warning_time # None)

\* the tick that confirms an intrusion has spoken the greeting already
C17_Witness ==
    /\ event = "tick"
    /\ decision = "IntruderConfirmed"
    /\ warned = {0}
    /\ self.intruder_detected
    /\ self.escalation_level = 1
    /\ self.last_warning_time = current_time

\* C18: a step speaks a warning, writes a snapshot or raises the level only
\* if it is a tick with an unknown-only frame whose timer was set before
\* the tick, more than 3 s before its clock value, and that comes more than
\* 3 s after the start of the current run of unknown-only ticks; so an
\* empty-frame tick never escalates, and after an empty frame the ladder
\* goes on only after a fresh grace period.
C18_EscalationNeedsFreshGrace ==
    [][ ( \/ Fires
          \/ snapshot_path' # None
          \/ self'.escalation_level > self.escalation_level ) =>
        /\ event' = "tick"
        /\ UnknownOnlyFrame(frame')
        /\ decision' = "IntruderConfirmed"
        /\ self.unrecognized_face_start_time # None
        /\ current_time' - self.unrecognized_face_start_time > 3
        /\ runStart # None
        /\ current_time' - runStart > 3 ]_vars

\* the second warning spoken 4 s into a run of unknown-only ticks: the run
\* started after the greeting, so the face had left and come back, and the
\* ladder went on from level 1
C18_Witness ==
    /\ event = "tick"
    /\ spoken = <<MSG_MONITORED>>
    /\ self.escalation_level = 2
    /\ runStart # None
    /\ current_time - runStart = 4

\* the command loop can start a guard cycle / shut the agent down
CanStartGuard ==
    ENABLED (\E heard \in Heard : Listen("ok", heard, TRUE) /\ pc' = "guard")
CanStopAgent ==
    ENABLED (\E heard \in Heard : Listen("ok", heard, TRUE) /\ pc' = "done")

\* C15: after a failed frame read the guard cycle is over and the agent is
\* not: the camera is released, run() is listening again, and a later
\* command can start a new guard cycle or shut the agent down.
C15_ReadFailureEndsCycleOnly ==
    (event = "readfail") =>
        /\ pc = "listen"
        /\ ~camera_open
        /\ spoken = Teardown
        /\ CanStartGuard
        /\ CanStopAgent

\* a frame read that failed in the middle of an intrusion
C15_Witness ==
    /\ event = "readfail"
    /\ pc = "listen"
    /\ self.intruder_detected
    /\ self.escalation_level = 2

\* sub occurs in phrase as a run of consecutive characters
HasSubstring(sub, phrase) ==
    \E first \in 1..(Len(phrase) - Len(sub) + 1) :
        \A k \in 1..Len(sub) : phrase[first + k - 1] = sub[k]

PhraseGuard == <<"g", "u", "a", "r", "d", " ", "m", "y", " ", "r", "o", "o", "m">>
PhraseExit == <<"e", "x", "i", "t">>
PhraseStop == <<"s", "t", "o", "p">>

\* start_guard_mode ran in the step: it announced guard mode, and the guard
\* loop is entered when the camera opened
StartGuardRan ==
    /\ Len(spoken') >= 1 /\ spoken'[1] = MSG_ACTIVATED
    /\ pc' = IF camera_open' THEN "guard" ELSE "listen"

\* C14 as stated: a phrase containing "guard my room" starts guard mode, a
\* phrase containing "exit" or "stop" shuts the agent down, any other phrase
\* has no effect.
C14_PhraseMapping ==
    [][ (event' = "listen" /\ listen_result' = "ok") =>
        LET guard == HasSubstring(PhraseGuard, command')
            stop == HasSubstring(PhraseExit, command')
                       \/ HasSubstring(PhraseStop, command')
        IN  /\ guard => StartGuardRan
            /\ stop => (pc' = "done" /\ spoken' = <<MSG_GOODBYE>>)
            /\ (~guard /\ ~stop) => (pc' = "listen" /\ spoken' = <<>>) ]_vars

\* C14 amended: a phrase containing "guard my room" starts guard mode, also
\* when it contains "exit" or "stop" as well; a phrase containing "exit" or
\* "stop" and not "guard my room" shuts the agent down; any other phrase
\* has no effect and the loop listens again.
C14_PhraseMappingGuardFirst ==
    [][ (event' = "listen" /\ listen_result' = "ok") =>
        LET guard == HasSubstring(PhraseGuard, command')
            stop == HasSubstring(PhraseExit, command')
                       \/ HasSubstring(PhraseStop, command')
        IN  /\ guard => StartGuardRan
            /\ (stop /\ ~guard) => (pc' = "done" /\ spoken' = <<MSG_GOODBYE>>)
            /\ (~guard /\ ~stop) => (pc' = "listen" /\ spoken' = <<>>) ]_vars

\* a phrase with "exit" and "guard my room" in it has started the guard loop
C14_Witness ==
    /\ event = "listen"
    /\ listen_result = "ok"
    /\ HasSubstring(PhraseExit, command)
    /\ HasSubstring(PhraseGuard, command)
    /\ pc = "guard"
    /\ camera_open

\* C16: a listening that ends in a timeout, in unintelligible audio or in
\* an unreachable service returns the empty command, and the step starts no
\* guard cycle, does not shut the agent down, says nothing and leaves the
\* intruder fields alone, with run() listening again; the agent shuts down
\* only in a step that recognized a phrase containing "exit" or "stop".
C16_ListenFailuresAreNoCommand ==
    [][ /\ (event' = "listen" /\ listen_result' \in ListenFailures) =>
              /\ command' = <<>>
              /\ pc' = "listen"
              /\ ~camera_open'
              /\ spoken' = <<>>
              /\ self' = self
        /\ (pc # "done" /\ pc' = "done") =>
              /\ event' = "listen"
              /\ listen_result' = "ok"
              /\ \/ HasSubstring(PhraseExit, command')
                 \/ HasSubstring(PhraseStop, command') ]_vars

\* the speech service was unreachable between two guard cycles, during an
\* intrusion: the agent listens on with the intrusion as it was
C16_Witness ==
    /\ event = "listen"
    /\ listen_result = "RequestError"
    /\ command = <<>>
    /\ pc = "listen"
    /\ self.intruder_detected

\* the guard loop is running and only unknown faces are seen from now on
PersistPhase == pc = "guard" /\ now >= PersistFrom

\* C19: once every tick sees unknown faces only, the guard loop is not
\* stopped and the clock advances from tick to tick, the intrusion is
\* confirmed and escalation_level reaches 4 and stays there.
C19_LadderReachesTop ==
    PersistPhase ~> [](self.intruder_detected /\ self.escalation_level = 4)

\* the ladder at level 4 on a later tick that keeps it there
C19_Witness ==
    /\ PersistPhase
    /\ event = "tick"
    /\ UnknownOnlyFrame(frame)
    /\ self.intruder_detected
    /\ self.escalation_level = 4
    /\ spoken = <<>>
    /\ current_time > self.last_warning_time

====
